---- MODULE Spec2Model ----
(***************************************************************************)
(* Pitsweeper inference engine: MazeClause (maze_clause.py) and            *)
(* MazeKnowledgeBase (maze_knowledge_base.py).                             *)
(*                                                                         *)
(* A Python dict is modelled as the set of its (key, value) items, no two  *)
(* with the same key: this is frozenset(self.props.items()), the value     *)
(* MazeClause.__eq__ compares and MazeClause.__hash__ hashes, so a clause  *)
(* record [props, valid] is equal to another exactly when __eq__ says so,  *)
(* and a Python set of MazeClause objects is a TLA+ set of records.        *)
(* Iteration over a Python set visits its members in an order the program  *)
(* does not control (the hash of a clause depends on the per-process       *)
(* string hash seed), so a loop over a set whose outcome depends on the    *)
(* order is a choice among the orders.                                     *)
(***************************************************************************)
EXTENDS Integers, Sequences, FiniteSets, TLC

(***************************************************************************)
(* Bounds                                                                  *)
(***************************************************************************)
\* number of maze locations the propositions of the clause specification range over
MaxLoc == 3
\* longest literal list handed to the MazeClause constructor
MaxLits == 2

\* number of maze locations the propositions of a knowledge base range over
MaxKBLoc == 2
\* longest literal list of a clause told to, or asked of, a knowledge base
MaxTellLits == 2
\* most clauses tell is called with on one knowledge base
MaxClauses == 2

\* the value Python calls None
None == "None"
\* a Python bool where None can stand too: "True" or "False"
PyBool(b) == IF b THEN "True" ELSE "False"

\* the pit propositions ("P", (x, y)) over the locations (1, 1) .. (n, 1)
PropsOver(n) == {<<"P", <<x, 1>>>> : x \in 1..n}
\* the propositions and literals ((symbol, location), truth_val) of the clause specification
Props == PropsOver(MaxLoc)
Literals == Props \X BOOLEAN

RECURSIVE SeqsUpTo(_, _)
\* all sequences over S of length at most n
SeqsUpTo(S, n) ==
    IF n = 0 THEN {<<>>}
    ELSE LET shorter == SeqsUpTo(S, n - 1)
         IN  shorter \cup {Append(s, x) : s \in {t \in shorter : Len(t) = n - 1}, x \in S}

\* the literal lists a caller may pass to MazeClause(...)
LitSeqs == SeqsUpTo(Literals, MaxLits)

(***************************************************************************)
(* Python dict, as the set of its (key, value) items                       *)
(***************************************************************************)
\* key in d
DictHas(d, k) == \E it \in d : it[1] = k
\* d[key]
DictGet(d, k) == LET it == CHOOSE x \in d : x[1] = k IN it[2]
\* d[key] = value
DictSet(d, k, v) == {it \in d : it[1] # k} \cup {<<k, v>>}
\* del d[key]
DictDel(d, k) == {it \in d : it[1] # k}
\* the keys of d
DictKeys(d) == {it[1] : it \in d}

RECURSIVE DictToList(_)
\* list(d.items()): the items of d in a list
DictToList(d) ==
    IF d = {} THEN <<>>
    ELSE LET it == CHOOSE x \in d : TRUE IN <<it>> \o DictToList(d \ {it})

(***************************************************************************)
(* MazeClause                                                              *)
(***************************************************************************)
RECURSIVE MazeClauseLoop(_, _, _)
\* the constructor's loop without the clear() of the literal map on a conflict
MazeClauseLoopKeep(props, i, self) ==
    IF i > Len(props) THEN self
    ELSE LET prop == props[i][1]
             truth_val == props[i][2]
         IN  IF DictHas(self.props, prop)
             THEN IF DictGet(self.props, prop) # truth_val
                  THEN [self EXCEPT !.valid = TRUE]
                  ELSE MazeClauseLoop(props, i + 1, self)
             ELSE MazeClauseLoop(props, i + 1,
                      [self EXCEPT !.props = DictSet(self.props, prop, truth_val)])

\* the constructor's loop without the conflict check: the last value seen is kept
MazeClauseLoopLast(props, i, self) ==
    IF i > Len(props) THEN self
    ELSE MazeClauseLoop(props, i + 1,
             [self EXCEPT !.props = DictSet(self.props, props[i][1], props[i][2])])

\* the constructor's loop over props[i..], self being the clause built so far
MazeClauseLoop(props, i, self) ==
    IF i > Len(props) THEN self
    ELSE LET prop == props[i][1]
             truth_val == props[i][2]
         IN  IF DictHas(self.props, prop)
             THEN IF DictGet(self.props, prop) # truth_val
                  THEN [props |-> {}, valid |-> TRUE]
                  ELSE MazeClauseLoop(props, i + 1, self)
             ELSE MazeClauseLoop(props, i + 1,
                      [self EXCEPT !.props = DictSet(self.props, prop, truth_val)])

\* MazeClause(props)
MazeClause(props) == MazeClauseLoop(props, 1, [props |-> {}, valid |-> FALSE])

\* clause.get_prop(prop): None, or the truth value as "True" / "False"
get_prop(self, prop) ==
    IF ~DictHas(self.props, prop) THEN None
    ELSE PyBool(DictGet(self.props, prop))

\* clause.is_valid()
is_valid(self) == self.valid

\* clause.is_empty()
is_empty(self) == (~self.valid) /\ (Cardinality(self.props) = 0)

\* clause.__eq__(other)
MazeClause_eq(self, other) == self.props = other.props /\ self.valid = other.valid

\* len(clause)
MazeClause_len(self) == Cardinality(self.props)

\* clause.to_serializable()
to_serializable(self) == IF self.valid THEN <<>> ELSE DictToList(self.props)

\* the propositions of c1 that c2 holds with the opposite value
oposite_props(c1, c2) ==
    {p \in DictKeys(c1.props) :
        DictHas(c2.props, p) /\ DictGet(c1.props, p) # DictGet(c2.props, p)}

RECURSIVE DictUpdate(_, _)
\* for prop, value in src.items(): d.update({prop: value})
DictUpdate(d, src) ==
    IF src = {} THEN d
    ELSE LET it == CHOOSE x \in src : TRUE
         IN  DictUpdate(DictSet(d, it[1], it[2]), src \ {it})

\* the clause built from c1 and c2 with proposition op removed from both
infered_clause(c1, c2, op) ==
    LET clause1_copy == DictDel(c1.props, op)
        clause2_copy == DictDel(c2.props, op)
        reduced_props == DictUpdate(DictUpdate({}, clause1_copy), clause2_copy)
    IN  MazeClause(DictToList(reduced_props))

\* resolve that resolves on a complementary proposition whenever there is one
resolve_any(c1, c2) ==
    IF MazeClause_eq(c1, c2) \/ c1.valid \/ c2.valid THEN {}
    ELSE LET ops == oposite_props(c1, c2)
         IN  IF Cardinality(ops) = 0 THEN {}
             ELSE LET ic == infered_clause(c1, c2, CHOOSE p \in ops : TRUE)
                  IN  IF ic.valid THEN {} ELSE {ic}

\* resolve without the early return, merging the clauses when nothing is complementary
resolve_lenient(c1, c2) ==
    LET ops == oposite_props(c1, c2)
    IN  IF Cardinality(ops) > 1 THEN {}
        ELSE LET ic == IF Cardinality(ops) = 1
                       THEN infered_clause(c1, c2, CHOOSE p \in ops : TRUE)
                       ELSE MazeClause(DictToList(DictUpdate(c1.props, c2.props)))
             IN  IF ic.valid THEN {} ELSE {ic}

\* MazeClause.resolve(c1, c2): the set of resolvents, empty or a singleton
resolve(c1, c2) ==
    IF MazeClause_eq(c1, c2) \/ c1.valid \/ c2.valid THEN {}
    ELSE LET ops == oposite_props(c1, c2)
         IN  IF Cardinality(ops) # 1 THEN {}
             ELSE LET ic == infered_clause(c1, c2, CHOOSE p \in ops : TRUE)
                  IN  IF ic.valid THEN {} ELSE {ic}

(***************************************************************************)
(* MazeKnowledgeBase                                                       *)
(***************************************************************************)
\* the locations, propositions and literals of the knowledge base specification
KBLocs == {<<x, 1>> : x \in 1..MaxKBLoc}
KBProps == PropsOver(MaxKBLoc)
KBLiterals == KBProps \X BOOLEAN
\* the literal lists of the clauses told and asked
KBLitSeqs == SeqsUpTo(KBLiterals, MaxTellLits)
\* the query clauses a caller may ask
KBQueries == {MazeClause(props) : props \in KBLitSeqs}

\* tell that replaces the stored clauses by the new one
tell_replace(self_clauses, clause) == {clause}

\* kb.tell(clause): self.clauses.add(clause)
tell(self_clauses, clause) == self_clauses \cup {clause}

\* all orders (lists without repetition) in which the members of set S can be visited
RECURSIVE Orders(_)
Orders(S) ==
    IF S = {} THEN {<<>>}
    ELSE UNION {{<<x>> \o o : o \in Orders(S \ {x})} : x \in S}

RECURSIVE simplify_loop_drop(_, _, _, _, _, _)
\* a loop that deletes every longer clause mentioning loc, resolved or not
simplify_loop_drop(order, i, loc, is_pit, to_add, to_rem) ==
    IF i > Len(order) THEN <<to_add, to_rem>>
    ELSE LET clause == order[i]
         IN  IF MazeClause_len(clause) = 1 \/ get_prop(clause, <<"P", loc>>) = None
             THEN simplify_loop_drop(order, i + 1, loc, is_pit, to_add, to_rem)
             ELSE simplify_loop_drop(order, i + 1, loc, is_pit, to_add, to_rem \cup {clause})

RECURSIVE simplify_loop(_, _, _, _, _, _)
\* the loop of get_simplified_clauses over the clauses order[i..], in that order;
\* the result is <<to_add, to_rem>>
simplify_loop(order, i, loc, is_pit, to_add, to_rem) ==
    IF i > Len(order) THEN <<to_add, to_rem>>
    ELSE LET clause == order[i]
             sani_clause == MazeClause(<< <<(<<"P", loc>>), is_pit>> >>)
         IN  IF MazeClause_len(clause) = 1
             THEN simplify_loop(order, i + 1, loc, is_pit, to_add, to_rem)
             ELSE IF get_prop(clause, <<"P", loc>>) = PyBool(is_pit)
                  THEN <<to_add, to_rem \cup {clause}>>
                  ELSE simplify_loop(order, i + 1, loc, is_pit,
                                     to_add \cup resolve(clause, sani_clause), to_rem)

\* get_simplified_clauses(clauses, loc, is_pit) when the clauses are visited in the given order
get_simplified_clauses(order, clauses, loc, is_pit) ==
    LET r == simplify_loop(order, 1, loc, is_pit, {}, {})
    IN  (clauses \cup r[1]) \ r[2]

RECURSIVE AnyOrder(_)
\* one order in which the members of set S can be visited
AnyOrder(S) ==
    IF S = {} THEN <<>>
    ELSE LET x == CHOOSE x \in S : TRUE IN <<x>> \o AnyOrder(S \ {x})

\* the orders of iteration over the clause set that get_simplified_clauses can tell
\* apart.  One-literal clauses are skipped wherever they come; to_add is a set, so
\* the order among the clauses visited before the loop breaks does not show; what
\* shows is the clause the loop breaks at (the first one visited that holds the
\* fact) and which of the other clauses were visited before it.
VisitOrders(clauses, loc, is_pit) ==
    LET long == {c \in clauses : MazeClause_len(c) # 1}
        sat == {c \in long : get_prop(c, <<"P", loc>>) = PyBool(is_pit)}
    IN  IF sat = {} THEN {AnyOrder(long)}
        ELSE {AnyOrder(before) \o <<c>> : before \in SUBSET (long \ sat), c \in sat}

\* the results get_simplified_clauses(clauses, loc, is_pit) can return, one per order
\* of iteration over the clause set
get_simplified_clauses_results(clauses, loc, is_pit) ==
    {get_simplified_clauses(order, clauses, loc, is_pit) :
        order \in VisitOrders(clauses, loc, is_pit)}

RECURSIVE simplify_from_known_locs(_, _, _)
\* the results simplify_from_known_locs can return: the loop over the locations
\* locs = known_pits | known_safe still to visit, in any order
simplify_from_known_locs(clauses, locs, known_pits) ==
    IF locs = {} THEN {clauses}
    ELSE UNION {UNION {simplify_from_known_locs(r, locs \ {loc}, known_pits) :
                        r \in get_simplified_clauses_results(clauses, loc, loc \in known_pits)} :
                loc \in locs}

\* the negated query built at the start of ask
negated_query(query) == MazeClause(DictToList({<<it[1], ~it[2]>> : it \in query.props}))

\* the resolvents of all pairs of working clauses: one pass of the for loop of ask
ask_pass(working_clauses) ==
    UNION {resolve(clause1, clause2) : clause1 \in working_clauses, clause2 \in working_clauses}

\* a resolvent that makes ask return True
is_contradiction(remaining_clause) ==
    MazeClause_len(remaining_clause) = 0 /\ ~remaining_clause.valid

\* adding_clauses set by every resolvent of the pass, new or not
pass_adds_any(working_clauses, new_clauses) == new_clauses # {}

\* adding_clauses after a pass: some resolvent was not yet among the working clauses
pass_adds(working_clauses, new_clauses) == ~(new_clauses \subseteq working_clauses)

RECURSIVE ask_loop(_)
\* ask that gives up after one pass over the clause pairs
ask_one_pass(working_clauses) ==
    \E r \in ask_pass(working_clauses) : is_contradiction(r)

\* the while loop of ask on the working clauses: True as soon as a pass produces the
\* empty clause, False after a pass that adds nothing.  working_clauses is a list in
\* the code; it never holds a new clause twice (line 196), every pass resolves all
\* its pairs, and resolve does not depend on the order of its arguments, so the set
\* of its members decides the outcome.
ask_loop(working_clauses) ==
    LET new_clauses == ask_pass(working_clauses)
    IN  IF \E r \in new_clauses : is_contradiction(r) THEN TRUE
        ELSE IF ~pass_adds(working_clauses, new_clauses) THEN FALSE
        ELSE ask_loop(working_clauses \cup new_clauses)

\* kb.ask(query)
ask(self_clauses, query) == ask_loop(self_clauses \cup {negated_query(query)})

(***************************************************************************)
(* Environment and MazeAgent                                               *)
(***************************************************************************)
\* the maze handed to Environment, pits left out: rows of cells, cell (x, y) being
\* column x of row y, both counted from 0 as in the code
Layout ==
    << <<"X", "X", "X", "X", "X", "X">>,
       <<"X", "@", ".", ".", ".", "X">>,
       <<"X", "X", "X", ".", "G", "X">>,
       <<"X", "X", "X", "X", "X", "X">> >>

\* the largest number of pits in a maze
MaxPits == 2
\* the largest number of moves the agent is driven through
MaxMoves == 2

\* self._rows, self._cols
env_rows == Len(Layout)
env_cols == Len(Layout[1])
\* the cell of the input maze at loc
Cell(loc) == Layout[loc[2] + 1][loc[1] + 1]
AllLocs == {<<x, y>> : x \in 0..(env_cols - 1), y \in 0..(env_rows - 1)}
\* self._playable, self._goals, self._initial_loc
env_playable == {loc \in AllLocs : Cell(loc) # "X"}
get_goal_loc == CHOOSE loc \in AllLocs : Cell(loc) = "G"
initial_loc == CHOOSE loc \in AllLocs : Cell(loc) = "@"
\* the cells a maze may hold a pit in
PitCells == {loc \in AllLocs : Cell(loc) = "."}
\* Constants.DIRECTIONS
DIRECTIONS == {"U", "D", "L", "R"}
\* Constants.get_sensor_range()
get_sensor_range == 3

\* env.get_cardinal_locs(loc, offset)
get_cardinal_locs(loc, offset) ==
    {l \in {<<loc[1] + offset, loc[2]>>, <<loc[1] - offset, loc[2]>>,
            <<loc[1], loc[2] + offset>>, <<loc[1], loc[2] - offset>>} :
        /\ l[1] >= 0 /\ l[2] >= 0 /\ l[1] < env_cols /\ l[2] < env_rows
        /\ l \in env_playable}

\* the location i steps from loc in the direction
check_loc(loc, direction, i) ==
    CASE direction = "U" -> <<loc[1], loc[2] - i>>
      [] direction = "D" -> <<loc[1], loc[2] + i>>
      [] direction = "L" -> <<loc[1] - i, loc[2]>>
      [] direction = "R" -> <<loc[1] + i, loc[2]>>

\* env.get_directional_locs(loc, direction, max_distance): the loop stops at the
\* first location that is out of bounds or not playable
get_directional_locs(loc, direction, max_distance) ==
    IF direction \notin DIRECTIONS THEN {}
    ELSE {check_loc(loc, direction, i) : i \in
            {k \in 1..max_distance :
                \A j \in 1..k : check_loc(loc, direction, j) \in env_playable}}

\* only the tiles around the goal are looked at
is_valid_maze_goal_only(pits) ==
    {loc \in get_cardinal_locs(get_goal_loc, 1) : loc \notin pits} # {}

\* env._is_valid_maze() for the maze with the given pits
is_valid_maze(pits) ==
    /\ {loc \in get_cardinal_locs(get_goal_loc, 1) : loc \notin pits} # {}
    /\ {loc \in get_cardinal_locs(initial_loc, 1) : loc \in pits} = {}

\* self._og_maze[loc]: the tile under the player
og_maze(pits, loc) ==
    IF loc \in pits THEN "P"
    ELSE IF Cell(loc) = "@" THEN "." ELSE Cell(loc)

\* env._get_wrn_num(move): the pits among the scanned locations
get_wrn_num(pits, location, sensor_direction) ==
    Cardinality({loc \in get_directional_locs(location, sensor_direction, get_sensor_range) :
                    loc \in pits})

\* env._get_current_perception(move): the sensor is <<>> when no scan was asked
\* for, <<sensor_num, sensor_dir>> otherwise
get_current_perception(pits, loc, sensor_direction) ==
    [loc |-> loc, tile |-> og_maze(pits, loc),
     sensor |-> IF sensor_direction = None THEN <<>>
                ELSE <<get_wrn_num(pits, loc, sensor_direction), sensor_direction>>]

\* MazeClause([(("P", loc), value)])
UnitClause(loc, value) == MazeClause(<< << <<"P", loc>>, value >> >>)

\* the attributes of a MazeAgent before think has run
NewAgent ==
    [kb |-> {}, possible_pits |-> {}, safe_tiles |-> {}, pit_tiles |-> {}, dead_tiles |-> {}]

\* the tiles of tiles that are in neither safe_tiles nor pit_tiles
Unknown(self, tiles) == {t \in tiles : t \notin self.safe_tiles /\ t \notin self.pit_tiles}

\* tell one clause per tile of tiles: P(tile) = value
TellUnits(kb, tiles, value) == kb \cup {UnitClause(t, value) : t \in tiles}

\* MazeClause over the tiles of combination, all with the same value
ComboClause(combination, value) ==
    LET tiles == AnyOrder(combination)
    IN  MazeClause([i \in 1..Len(tiles) |-> << <<"P", tiles[i]>>, value >>])

\* itertools.combinations(scanned_tiles, r), each as a set of tiles
combinations(scanned_tiles, r) == {c \in SUBSET scanned_tiles : Cardinality(c) = r}

\* the clauses with one literal too few on the at-most side
create_pit_constraint_clauses_short(kb, scanned_tiles, pit_count) ==
    LET total_tiles == Cardinality(scanned_tiles)
    IN  kb \cup {ComboClause(c, TRUE) :
                    c \in combinations(scanned_tiles, total_tiles - pit_count + 1)}
           \cup {ComboClause(c, FALSE) : c \in combinations(scanned_tiles, pit_count)}

\* agent._create_pit_constraint_clauses(scanned_tiles, pit_count): the KB after it
create_pit_constraint_clauses(kb, scanned_tiles, pit_count) ==
    LET total_tiles == Cardinality(scanned_tiles)
        at_least == IF pit_count > 0
                    THEN {ComboClause(c, TRUE) :
                            c \in combinations(scanned_tiles, total_tiles - pit_count + 1) \ {{}}}
                    ELSE {}
        at_most == IF pit_count < total_tiles
                   THEN {ComboClause(c, FALSE) :
                            c \in combinations(scanned_tiles, pit_count + 1) \ {{}}}
                   ELSE {}
    IN  kb \cup at_least \cup at_most

\* the loop of _deduce_tile_states_from_constraints for one of its two queries:
\* the tiles still unknown for which the KB answers True to P(tile) = value
deduce_query(self, scanned_tiles, value) ==
    {t \in Unknown(self, scanned_tiles) : ask(self.kb, UnitClause(t, value))}

\* lines 367-371: the tiles the KB knows to be safe join safe_tiles
deduce_safe(self, scanned_tiles) ==
    [self EXCEPT !.safe_tiles = @ \cup deduce_query(self, scanned_tiles, FALSE)]

\* every scanned tile still unknown is taken for a pit
deduce_pits_guessing(self, scanned_tiles) ==
    [self EXCEPT !.pit_tiles = @ \cup Unknown(self, scanned_tiles)]

\* lines 373-376: of the tiles still unknown, those the KB knows to be pits join pit_tiles
deduce_pits(self, scanned_tiles) ==
    [self EXCEPT !.pit_tiles = @ \cup deduce_query(self, scanned_tiles, TRUE)]

\* agent._deduce_tile_states_from_constraints(scanned_tiles).  The KB does not change
\* during the loop and each tile is tested against the sets for itself only, so the
\* tiles can be taken together, the safe query first.
deduce_tile_states_from_constraints(self, scanned_tiles) ==
    deduce_pits(deduce_safe(self, scanned_tiles), scanned_tiles)

\* agent._check_goal_safety_constraints()
check_goal_safety_constraints(self) ==
    IF /\ Cardinality({loc \in get_cardinal_locs(get_goal_loc, 1) : loc \in self.pit_tiles})
            = Cardinality(get_cardinal_locs(get_goal_loc, 1)) - 1
       /\ Cardinality(Unknown(self, get_cardinal_locs(get_goal_loc, 1))) = 1
    THEN [self EXCEPT !.safe_tiles = @ \cup Unknown(self, get_cardinal_locs(get_goal_loc, 1)),
                      !.kb = TellUnits(@, Unknown(self, get_cardinal_locs(get_goal_loc, 1)), FALSE)]
    ELSE self

\* lines 294-297: the unknown scanned tiles join possible_pits
add_possible_pits(self, scanned_tiles, pit_count) ==
    [self EXCEPT !.possible_pits =
        @ \cup {t \in Unknown(self, scanned_tiles) : pit_count # 0}]

\* lines 299-315: the clauses told for the scan
tell_pit_constraint(self, scanned_tiles, pit_count) ==
    [self EXCEPT !.kb =
        IF pit_count = 0
        THEN TellUnits(@, Unknown(self, scanned_tiles), FALSE)
        ELSE IF pit_count = Cardinality(scanned_tiles)
        THEN TellUnits(@, scanned_tiles \ self.pit_tiles, TRUE)
        ELSE create_pit_constraint_clauses(@, scanned_tiles, pit_count)]

\* the constraint is told and nothing is deduced from it
add_pit_constraint_told_only(self, scanned_tiles, pit_count) ==
    tell_pit_constraint(self, scanned_tiles, pit_count)

\* agent._add_pit_constraint(scanned_tiles, pit_count)
add_pit_constraint(self, scanned_tiles, pit_count) ==
    check_goal_safety_constraints(
        deduce_tile_states_from_constraints(
            tell_pit_constraint(add_possible_pits(self, scanned_tiles, pit_count),
                                scanned_tiles, pit_count),
            scanned_tiles))

\* a scan without pits makes the tiles safe and tells the knowledge base nothing
scan_no_pits_untold(self, scanned_tiles) ==
    [self EXCEPT !.safe_tiles = @ \cup Unknown(self, scanned_tiles)]

\* lines 257-264: a scan without pits makes every unknown scanned tile safe
scan_no_pits(self, scanned_tiles) ==
    [self EXCEPT !.safe_tiles = @ \cup Unknown(self, scanned_tiles),
                 !.kb = TellUnits(@, Unknown(self, scanned_tiles), FALSE)]

\* a scan that reports no pit teaches nothing
process_scanner_reading_deaf(self, current_loc, sensor_num, sensor_dir) ==
    IF sensor_num = 0 THEN self
    ELSE add_pit_constraint(self,
            get_directional_locs(current_loc, sensor_dir, get_sensor_range), sensor_num)

\* agent._process_scanner_reading(current_loc, sensor_num, sensor_dir)
process_scanner_reading(self, current_loc, sensor_num, sensor_dir) ==
    IF sensor_num = 0
    THEN scan_no_pits(self, get_directional_locs(current_loc, sensor_dir, get_sensor_range))
    ELSE add_pit_constraint(self,
            get_directional_locs(current_loc, sensor_dir, get_sensor_range), sensor_num)

\* whatever the tile holds, the agent records it as safe
think_tile_all_safe(self, current_loc, tile_type) ==
    [self EXCEPT !.safe_tiles = @ \cup {current_loc},
                 !.kb = tell(@, UnitClause(current_loc, FALSE))]

\* think, lines 151-163: the tile the agent stands on
think_tile(self, current_loc, tile_type) ==
    IF tile_type = "P"
    THEN [self EXCEPT !.pit_tiles = @ \cup {current_loc},
                      !.kb = tell(@, UnitClause(current_loc, TRUE))]
    ELSE IF tile_type = "." \/ tile_type = "G"
    THEN [self EXCEPT !.safe_tiles = @ \cup {current_loc},
                      !.kb = tell(@, UnitClause(current_loc, FALSE))]
    ELSE self

\* no tile is marked dead after a scan
think_dead_tiles_none(self, current_loc, sensor_num, sensor_dir) == self

\* think, lines 169-178: after a scan with pits the first scanned tile joins
\* dead_tiles, and the dead tiles leave safe_tiles
think_dead_tiles(self, current_loc, sensor_num, sensor_dir) ==
    IF sensor_num > 0
    THEN [self EXCEPT
            !.dead_tiles = @ \cup get_directional_locs(current_loc, sensor_dir, 1),
            !.safe_tiles = @ \ (self.dead_tiles
                                  \cup get_directional_locs(current_loc, sensor_dir, 1))]
    ELSE self

\* think, lines 165-178: the scan, when the perception holds one
think_scan(self, percept) ==
    IF percept.sensor = <<>> THEN self
    ELSE think_dead_tiles(
            process_scanner_reading(self, percept.loc, percept.sensor[1], percept.sensor[2]),
            percept.loc, percept.sensor[1], percept.sensor[2])

\* agent.think(perception), lines 128-178: what it does to the agent's knowledge
think(self, percept) ==
    think_scan(think_tile(self, percept.loc, percept.tile), percept)

\* __init__, lines 76-83: the playable neighbours of the start tile are safe
init_adjacent(self, start_loc) ==
    [self EXCEPT !.safe_tiles = @ \cup Unknown(self, get_cardinal_locs(start_loc, 1)),
                 !.kb = TellUnits(@, Unknown(self, get_cardinal_locs(start_loc, 1)), FALSE)]

\* __init__, lines 86-91: the goal is safe
init_goal(self) ==
    [self EXCEPT !.safe_tiles = @ \cup Unknown(self, {get_goal_loc}),
                 !.kb = TellUnits(@, Unknown(self, {get_goal_loc}), FALSE)]

\* an agent that is not told the goal is safe
MazeAgent_init_no_goal(percept) ==
    init_adjacent(think(NewAgent, percept), percept.loc)

\* MazeAgent.__init__(env, perception), lines 51-91
MazeAgent_init(percept) ==
    init_goal(init_adjacent(think(NewAgent, percept), percept.loc))

\* membership in the belief sets only, the KB is not asked
is_safe_tile_sets_only(self, loc) ==
    IF loc \in self.safe_tiles THEN PyBool(TRUE)
    ELSE IF loc \in self.pit_tiles THEN PyBool(FALSE)
    ELSE None

\* agent.is_safe_tile(loc): "True", "False" or None
is_safe_tile(self, loc) ==
    IF loc \in self.safe_tiles THEN PyBool(TRUE)
    ELSE IF loc \in self.pit_tiles THEN PyBool(FALSE)
    ELSE IF ask(self.kb, UnitClause(loc, FALSE)) THEN PyBool(TRUE)
    ELSE IF ask(self.kb, UnitClause(loc, TRUE)) THEN PyBool(FALSE)
    ELSE None

\* Constants.get_min_score(), get_pit_penalty(), get_pit_correct_guess_bonus(),
\* get_pit_wrong_guess_penalty(), get_sensor_penalty()
get_min_score == -120
get_pit_penalty == 30
get_pit_correct_guess_bonus == 4
get_pit_wrong_guess_penalty == 8
get_sensor_penalty == 1
\* think, line 139: the number of visited tiles the agent remembers
visited_window == 10

\* Move(location, sensor_direction)
Move(location, sensor_direction) ==
    [location |-> location, sensor_direction |-> sensor_direction]

\* the explored tiles are not taken off the frontier
update_frontier_keep(frontier_now, explored_now, loc) ==
    frontier_now \cup get_cardinal_locs(loc, 1)

\* env._update_frontier(loc), with the explored set as it is after the move
update_frontier(frontier_now, explored_now, loc) ==
    (frontier_now \cup get_cardinal_locs(loc, 1)) \ explored_now

\* a request is turned down only for a wall
test_move_request_walls_only(frontier_now, explored_now, move) ==
    Cell(move.location) # "X"

\* env._test_move_request(move)
test_move_request(frontier_now, explored_now, move) ==
    /\ move.location \in frontier_now \/ move.location \in explored_now
    /\ Cell(move.location) # "X"

\* the value _make_move_request returns: the distance of the move
move_dist(old_loc, move) ==
    (IF old_loc[1] >= move.location[1] THEN old_loc[1] - move.location[1]
                                       ELSE move.location[1] - old_loc[1])
    + (IF old_loc[2] >= move.location[2] THEN old_loc[2] - move.location[2]
                                         ELSE move.location[2] - old_loc[2])

\* _run_one_tick, lines 624-625: the penalty of a move that was made
tick_penalty(pits, dist, move) ==
    dist + (IF move.location \in pits THEN get_pit_penalty ELSE 0)
         + (IF move.sensor_direction # None THEN get_sensor_penalty ELSE 0)

\* start_mission, lines 325-327: what the pit guesses add to the score at the goal
guess_score(pits, pit_guesses) ==
    get_pit_correct_guess_bonus * Cardinality(pit_guesses \cap pits)
    - get_pit_wrong_guess_penalty * Cardinality(pit_guesses \ pits)

\* think, lines 136-140: the visited tiles after the current one is appended
think_visited(visited, current_loc) ==
    IF Len(visited) + 1 > visited_window
    THEN SubSeq(Append(visited, current_loc), Len(visited) + 2 - visited_window, Len(visited) + 1)
    ELSE Append(visited, current_loc)

\* the direction lists of the two searches, as (dx, dy)
vertical_priority == << <<0, -1>>, <<0, 1>>, <<-1, 0>>, <<1, 0>> >>
horizontal_priority == << <<-1, 0>>, <<1, 0>>, <<0, -1>>, <<0, 1>> >>

RECURSIVE bfs_loop(_, _, _, _)
RECURSIVE bfs_directions(_, _, _, _, _, _, _)
\* the for loop over the directions for the entry (current_loc, path) taken from the
\* queue, from the i-th direction on
bfs_directions(self, directions, current_loc, path, i, queue, visited) ==
    IF i > Len(directions) THEN bfs_loop(self, directions, queue, visited)
    ELSE LET next_loc == <<current_loc[1] + directions[i][1], current_loc[2] + directions[i][2]>>
         IN  IF next_loc \in visited \/ next_loc \notin env_playable
             THEN bfs_directions(self, directions, current_loc, path, i + 1, queue, visited)
             ELSE IF next_loc \in self.pit_tiles \/ next_loc \in self.dead_tiles
             THEN bfs_directions(self, directions, current_loc, path, i + 1, queue, visited)
             ELSE IF next_loc = get_goal_loc
             THEN Append(path, next_loc)
             ELSE bfs_directions(self, directions, current_loc, path, i + 1,
                                 Append(queue, <<next_loc, Append(path, next_loc)>>),
                                 visited \cup {next_loc})

\* the while loop of the search: <<>> when the queue runs empty
bfs_loop(self, directions, queue, visited) ==
    IF queue = <<>> THEN <<>>
    ELSE bfs_directions(self, directions, Head(queue)[1], Head(queue)[2], 1, Tail(queue), visited)

\* the search with a given direction list
quickest_path(self, start_loc, directions) ==
    IF start_loc = get_goal_loc THEN <<get_goal_loc>>
    ELSE bfs_loop(self, directions, << <<start_loc, <<start_loc>> >> >>, {start_loc})

\* the search does not look at pit_tiles and dead_tiles
get_quickest_path_to_goal_blind(self, start_loc) ==
    quickest_path(NewAgent, start_loc, vertical_priority)

\* agent.get_quickest_path_to_goal(start_loc)
get_quickest_path_to_goal(self, start_loc) ==
    quickest_path(self, start_loc, vertical_priority)

\* agent.get_quickest_path_to_goal_horizontal_priority(start_loc)
get_quickest_path_to_goal_horizontal_priority(self, start_loc) ==
    quickest_path(self, start_loc, horizontal_priority)

\* agent._get_direction_to_target(current_loc, target_loc)
get_direction_to_target(current_loc, target_loc) ==
    IF target_loc[2] < current_loc[2] THEN "U"
    ELSE IF target_loc[2] > current_loc[2] THEN "D"
    ELSE IF target_loc[1] < current_loc[1] THEN "L"
    ELSE IF target_loc[1] > current_loc[1] THEN "R"
    ELSE "U"

\* think, line 182: the test that selects the horizontal-priority search; visited
\* holds the current tile as its last entry
just_backtracked(visited, current_loc) ==
    /\ Len(visited) > 1
    /\ \E i \in 1..(Len(visited) - 1) : visited[i] = current_loc

\* think, lines 182-187: path_to_goal
path_to_goal(self, visited, current_loc) ==
    IF just_backtracked(visited, current_loc)
    THEN get_quickest_path_to_goal_horizontal_priority(self, current_loc)
    ELSE get_quickest_path_to_goal(self, current_loc)

\* think, lines 190-210 with a move to the goal when the next tile is not known safe
choose_move_rush(self, visited, current_loc, path) ==
    IF Len(path) > 1
    THEN IF path[2] \in self.safe_tiles THEN Move(path[2], None)
         ELSE Move(get_goal_loc, None)
    ELSE IF Len(visited) > 1 THEN Move(visited[Len(visited) - 1], None)
    ELSE Move(current_loc, "U")

\* think, lines 190-210: the Move made of the path
choose_move(self, visited, current_loc, path) ==
    IF Len(path) > 1
    THEN IF path[2] \in self.safe_tiles THEN Move(path[2], None)
         ELSE Move(current_loc, get_direction_to_target(current_loc, path[2]))
    ELSE IF Len(visited) > 1 THEN Move(visited[Len(visited) - 1], None)
    ELSE Move(current_loc, "U")

\* the move is chosen as if every playable tile were known to be safe
think_move_trusting(self, visited, current_loc) ==
    choose_move([self EXCEPT !.safe_tiles = env_playable], visited, current_loc,
                path_to_goal(self, visited, current_loc))

\* the Move agent.think(perception) returns: self and visited are the agent's
\* knowledge and visited tiles after lines 128-178
think_move(self, visited, current_loc) ==
    choose_move(self, visited, current_loc, path_to_goal(self, visited, current_loc))

\* kb.clauses after kb.ask(query): lines 184-185 copy the stored clauses into a
\* list, and the negated query and the resolvents are appended to the copy only
ask_clauses(clauses_now, query) == clauses_now

\* a safe answer drawn from the KB is remembered in safe_tiles
is_safe_tile_self_caching(self, loc) ==
    IF loc \notin self.pit_tiles /\ ask(self.kb, UnitClause(loc, FALSE))
    THEN [self EXCEPT !.safe_tiles = @ \cup {loc}]
    ELSE self

\* the agent after agent.is_safe_tile(loc): the belief sets are read only, and
\* the KB is what the asks of lines 435 and 443 leave
is_safe_tile_self(self, loc) ==
    IF loc \in self.safe_tiles \/ loc \in self.pit_tiles THEN self
    ELSE IF ask(self.kb, UnitClause(loc, FALSE))
    THEN [self EXCEPT !.kb = ask_clauses(@, UnitClause(loc, FALSE))]
    ELSE [self EXCEPT !.kb = ask_clauses(ask_clauses(@, UnitClause(loc, FALSE)),
                                         UnitClause(loc, TRUE))]

\* agent.get_pit_tiles(remaining_time)
get_pit_tiles(self) == self.pit_tiles

(***************************************************************************)
(* State                                                                   *)
(***************************************************************************)
VARIABLES
    \* clause specification: two literal lists, the clauses built from them,
    \* the result of resolve on the two clauses, and the position
    in1, in2, c1, c2, resolvents, cpc,
    \* the clauses built again from the serialised forms of c1 and c2
    rebuilt,
    \* knowledge base specification: kb.clauses, the position of the caller
    \* (idle, or just back from tell, simplify_self or ask), the argument of the
    \* call it is back from, the value the call returned, and kb.clauses as it
    \* was when the call was made
    clauses, kpc, karg, kret, kprev,
    \* the locals of a running ask: the working clauses and the loop flag; and the
    \* number of turns its while loop has taken
    working_clauses, adding_clauses, passes,
    \* what the caller remembers of an ask that returned True: the query, and the
    \* number of clauses the knowledge base held then
    held,
    \* agent specification: the pits of the maze (env._pits), the player's location,
    \* the agent's attributes, the perception the agent was last given, and the
    \* position (new, error, created, ready), and the number of moves made
    env_pits, player_loc, agent, perception, apc, moves,
    \* env._explored, env._frontier and agent.visited_tiles
    explored, frontier, visited_tiles,
    \* mission specifications: the locals score, next_move and penalty of
    \* start_mission and _run_one_tick, the position in the turn loop (none, loop,
    \* decided, moved, ticked, done), whether the last move made went back onto an
    \* explored tile, and the scans requested so far as <<tile, direction>>
    score, next_move, penalty, mpc, moved_back, scans

clauseVars == <<in1, in2, c1, c2, resolvents, cpc, rebuilt>>
kbVars == <<clauses, kpc, karg, kret, kprev>>
askVars == <<working_clauses, adding_clauses, passes>>
missionVars == <<score, next_move, penalty, mpc, moved_back, scans>>
agentVars == <<env_pits, player_loc, agent, perception, apc, moves,
               explored, frontier, visited_tiles, missionVars>>
vars == <<clauseVars, kbVars, askVars, held, agentVars>>

\* the variables of a specification that does not use them
ClauseIdle ==
    /\ in1 = <<>> /\ in2 = <<>> /\ c1 = None /\ c2 = None
    /\ resolvents = None /\ cpc = "unused" /\ rebuilt = <<>>
KBIdle ==
    /\ clauses = {} /\ kpc = "unused" /\ karg = None /\ kret = None /\ kprev = {}
    /\ working_clauses = {} /\ adding_clauses = FALSE /\ passes = 0 /\ held = {}
MissionIdle ==
    /\ score = 0 /\ next_move = Move(<<0, 0>>, None) /\ penalty = 0 /\ mpc = "none"
    /\ moved_back = FALSE /\ scans = {}
AgentIdle ==
    /\ env_pits = {} /\ player_loc = <<0, 0>> /\ agent = NewAgent
    /\ perception = [loc |-> <<0, 0>>, tile |-> "X", sensor |-> <<>>] /\ apc = "unused"
    /\ moves = 0
    /\ explored = {} /\ frontier = {} /\ visited_tiles = <<>>
    /\ MissionIdle

(***************************************************************************)
(* Clause specification: construct two clauses, then resolve them          *)
(***************************************************************************)
ClauseInit ==
    /\ in1 \in LitSeqs
    /\ in2 \in LitSeqs
    /\ c1 = None
    /\ c2 = None
    /\ resolvents = None
    /\ cpc = "new"
    /\ rebuilt = <<>>
    /\ KBIdle
    /\ AgentIdle

\* c1 = MazeClause(in1); c2 = MazeClause(in2)
Construct ==
    /\ cpc = "new"
    /\ c1' = MazeClause(in1)
    /\ c2' = MazeClause(in2)
    /\ cpc' = "built"
    /\ UNCHANGED <<in1, in2, resolvents, rebuilt, kbVars, askVars, held, agentVars>>

\* resolvents = MazeClause.resolve(c1, c2)
Resolve ==
    /\ cpc = "built"
    /\ resolvents' = resolve(c1, c2)
    /\ cpc' = "resolved"
    /\ UNCHANGED <<in1, in2, c1, c2, rebuilt, kbVars, askVars, held, agentVars>>

ClauseNext == Construct \/ Resolve

ClauseSpec == ClauseInit /\ [][ClauseNext]_vars

\* rebuilt = [MazeClause(c1.to_serializable()), MazeClause(c2.to_serializable())]
Serialize ==
    /\ cpc = "built"
    /\ rebuilt' = <<MazeClause(to_serializable(c1)), MazeClause(to_serializable(c2))>>
    /\ cpc' = "serialized"
    /\ UNCHANGED <<in1, in2, c1, c2, resolvents, kbVars, askVars, held, agentVars>>

SerialNext == Construct \/ Serialize

\* two clauses are constructed, serialised and built again
SerialSpec == ClauseInit /\ [][SerialNext]_vars

(***************************************************************************)
(* Knowledge base specification: a caller that tells clauses, simplifies   *)
(* and asks, one call at a time                                            *)
(***************************************************************************)
KBInit ==
    /\ clauses = {}
    /\ kpc = "idle"
    /\ karg = None
    /\ kret = None
    /\ kprev = {}
    /\ working_clauses = {}
    /\ adding_clauses = FALSE
    /\ passes = 0
    /\ held = {}
    /\ ClauseIdle
    /\ AgentIdle

\* kb.tell(MazeClause(props))
Tell ==
    /\ kpc = "idle"
    /\ \E props \in KBLitSeqs :
         /\ Cardinality(tell(clauses, MazeClause(props))) <= MaxClauses
         /\ clauses' = tell(clauses, MazeClause(props))
         /\ karg' = props
    /\ kpc' = "told"
    /\ kret' = None
    /\ kprev' = clauses
    /\ UNCHANGED <<clauseVars, askVars, held, agentVars>>

\* kb.tell(clause) for a clause built earlier; the caller goes straight on
TellClause ==
    /\ kpc = "idle"
    /\ \E clause \in KBQueries :
         /\ Cardinality(tell(clauses, clause)) <= MaxClauses
         /\ clauses' = tell(clauses, clause)
    /\ UNCHANGED <<kpc, karg, kret, kprev, clauseVars, askVars, held, agentVars>>

\* kb.simplify_self(known_pits, known_safe), the two sets disjoint
SimplifySelf ==
    /\ kpc = "idle"
    /\ Cardinality(clauses) <= MaxClauses
    /\ \E known_pits \in SUBSET KBLocs :
         \E known_safe \in SUBSET (KBLocs \ known_pits) :
           /\ clauses' \in simplify_from_known_locs(clauses, known_pits \cup known_safe, known_pits)
           /\ karg' = <<known_pits, known_safe>>
    /\ kpc' = "simplified"
    /\ kret' = None
    /\ kprev' = clauses
    /\ UNCHANGED <<clauseVars, askVars, held, agentVars>>

\* kb.simplify_self(known_pits, known_safe) called a second time with the arguments
\* of the call that has just returned
SimplifyAgain ==
    /\ kpc = "simplified"
    /\ clauses' \in simplify_from_known_locs(clauses, karg[1] \cup karg[2], karg[1])
    /\ kpc' = "resimplified"
    /\ kprev' = clauses
    /\ UNCHANGED <<karg, kret, clauseVars, askVars, held, agentVars>>

\* kb.ask(query)
Ask ==
    /\ kpc = "idle"
    /\ \E query \in KBQueries :
         /\ kret' = PyBool(ask(clauses, query))
         /\ karg' = query
    /\ kpc' = "asked"
    /\ kprev' = clauses
    /\ UNCHANGED <<clauses, clauseVars, askVars, held, agentVars>>

\* the caller takes the result and goes on
KBReturn ==
    /\ kpc \in {"told", "simplified", "resimplified", "asked"}
    /\ kpc' = "idle"
    /\ karg' = None
    /\ kret' = None
    /\ kprev' = {}
    /\ working_clauses' = {}
    /\ adding_clauses' = FALSE
    /\ passes' = 0
    /\ UNCHANGED <<clauses, clauseVars, held, agentVars>>

\* a caller that tells and asks
KBNext == Tell \/ Ask \/ KBReturn

KBSpec == KBInit /\ [][KBNext]_vars

\* a caller that tells and simplifies
SimplifyNext == TellClause \/ SimplifySelf \/ KBReturn

SimplifySpec == KBInit /\ [][SimplifyNext]_vars

\* a caller that tells, simplifies, and may simplify once more with the same facts
ResimplifyNext == TellClause \/ SimplifySelf \/ SimplifyAgain \/ KBReturn

ResimplifySpec == KBInit /\ [][ResimplifyNext]_vars

(***************************************************************************)
(* A caller that tells, asks a query until one is answered True, remembers *)
(* it, tells more and asks it again                                        *)
(***************************************************************************)
\* kb.ask(query) returns True and the caller remembers the query
AskFirst ==
    /\ kpc = "idle"
    /\ held = {}
    /\ \E query \in KBQueries :
         /\ ask(clauses, query)
         /\ karg' = query
         /\ held' = {[query |-> query, size |-> Cardinality(clauses)]}
    /\ kret' = PyBool(TRUE)
    /\ kpc' = "asked"
    /\ kprev' = clauses
    /\ UNCHANGED <<clauses, clauseVars, askVars, agentVars>>

\* kb.ask(query) for the remembered query
AskAgain ==
    /\ kpc = "idle"
    /\ \E h \in held :
         /\ kret' = PyBool(ask(clauses, h.query))
         /\ karg' = h.query
    /\ kpc' = "reasked"
    /\ kprev' = clauses
    /\ UNCHANGED <<clauses, clauseVars, askVars, held, agentVars>>

\* the caller takes the second answer and goes on
AgainReturn ==
    /\ kpc = "reasked"
    /\ kpc' = "idle"
    /\ karg' = None
    /\ kret' = None
    /\ kprev' = {}
    /\ UNCHANGED <<clauses, clauseVars, askVars, held, agentVars>>

MonoNext == Tell \/ AskFirst \/ AskAgain \/ KBReturn \/ AgainReturn

MonoSpec == KBInit /\ [][MonoNext]_vars

(***************************************************************************)
(* A caller that tells and asks, ask running one pass of its while loop at *)
(* a time                                                                  *)
(***************************************************************************)
\* ask called: lines 179-187, the negated query joins a copy of the stored clauses
AskBegin ==
    /\ kpc = "idle"
    /\ \E query \in KBQueries :
         /\ working_clauses' = clauses \cup {negated_query(query)}
         /\ karg' = query
    /\ adding_clauses' = TRUE
    /\ passes' = 0
    /\ kpc' = "asking"
    /\ kret' = None
    /\ kprev' = clauses
    /\ UNCHANGED <<clauses, clauseVars, held, agentVars>>

\* one turn of the while loop, lines 188-202: the for loop over all clause pairs.
\* It returns True at the first empty resolvent (the list, which dies with the
\* call, is left as the pass found it); otherwise the new resolvents are appended.
AskPass ==
    /\ kpc = "asking"
    /\ adding_clauses
    /\ LET new_clauses == ask_pass(working_clauses)
       IN  IF \E r \in new_clauses : is_contradiction(r)
           THEN /\ kret' = PyBool(TRUE)
                /\ kpc' = "asked"
                /\ UNCHANGED <<working_clauses, adding_clauses>>
           ELSE /\ working_clauses' = working_clauses \cup new_clauses
                /\ adding_clauses' = pass_adds(working_clauses, new_clauses)
                /\ UNCHANGED <<kret, kpc>>
    /\ passes' = passes + 1
    /\ UNCHANGED <<clauses, karg, kprev, clauseVars, held, agentVars>>

\* the while loop ends, line 203: return False
AskExit ==
    /\ kpc = "asking"
    /\ ~adding_clauses
    /\ kret' = PyBool(FALSE)
    /\ kpc' = "asked"
    /\ UNCHANGED <<clauses, karg, kprev, askVars, clauseVars, held, agentVars>>

AskLoopNext == Tell \/ AskBegin \/ AskPass \/ AskExit \/ KBReturn

\* ask is a blocking call of a single thread: once called, its loop keeps running
AskLoopSpec ==
    KBInit /\ [][AskLoopNext]_vars /\ WF_vars(AskPass) /\ WF_vars(AskExit)

(***************************************************************************)
(* Agent specification: an Environment is built on a maze, which creates   *)
(* the agent, and the agent is then driven by env.test_move                *)
(***************************************************************************)
AgentInit ==
    /\ env_pits \in {pits \in SUBSET PitCells : Cardinality(pits) <= MaxPits}
    /\ player_loc = initial_loc
    /\ agent = NewAgent
    /\ perception = [loc |-> <<0, 0>>, tile |-> "X", sensor |-> <<>>]
    /\ apc = "new"
    /\ moves = 0
    /\ explored = {} /\ frontier = {} /\ visited_tiles = <<>>
    /\ MissionIdle
    /\ ClauseIdle
    /\ KBIdle

\* Environment(maze): ValueError on a maze that is not valid, otherwise the agent
\* is created with the perception of the start tile
NewEnvironment ==
    /\ apc = "new"
    /\ IF is_valid_maze(env_pits)
       THEN LET percept == get_current_perception(env_pits, player_loc, None)
            IN  /\ perception' = percept
                /\ agent' = MazeAgent_init(percept)
                /\ visited_tiles' = think_visited(visited_tiles, player_loc)
                /\ explored' = {player_loc}
                /\ frontier' = update_frontier(frontier, {player_loc}, player_loc)
                /\ apc' = "created"
       ELSE /\ apc' = "error"
            /\ UNCHANGED <<perception, agent, visited_tiles, explored, frontier>>
    /\ UNCHANGED <<env_pits, player_loc, moves, missionVars, clauseVars, kbVars, askVars, held>>

\* env.test_move(Move(location, sensor_direction)): the player is put on location,
\* and the agent thinks about the perception there
TestMove ==
    /\ apc \in {"created", "ready"}
    /\ moves < MaxMoves
    /\ \E location \in env_playable, sensor_direction \in DIRECTIONS \cup {None} :
         LET percept == get_current_perception(env_pits, location, sensor_direction)
         IN  /\ player_loc' = location
             /\ perception' = percept
             /\ agent' = think(agent, percept)
             /\ visited_tiles' = think_visited(visited_tiles, location)
             /\ explored' = explored \cup {location}
             /\ frontier' = update_frontier(frontier, explored \cup {location}, location)
    /\ apc' = "ready"
    /\ moves' = moves + 1
    /\ UNCHANGED <<env_pits, missionVars, clauseVars, kbVars, askVars, held>>

AgentNext == NewEnvironment \/ TestMove

AgentSpec == AgentInit /\ [][AgentNext]_vars

(***************************************************************************)
(* Query specification: between test moves a caller asks the agent's KB a   *)
(* query, or asks the agent whether a tile is safe                         *)
(***************************************************************************)
\* the queries put to the agent's KB: P(loc) = value for a playable tile
TileQueries == {UnitClause(loc, value) : loc \in env_playable, value \in BOOLEAN}

\* as AgentInit, with a caller that is about to put its queries
QueryInit ==
    /\ env_pits \in {pits \in SUBSET PitCells : Cardinality(pits) <= MaxPits}
    /\ player_loc = initial_loc
    /\ agent = NewAgent
    /\ perception = [loc |-> <<0, 0>>, tile |-> "X", sensor |-> <<>>]
    /\ apc = "new"
    /\ moves = 0
    /\ explored = {} /\ frontier = {} /\ visited_tiles = <<>>
    /\ MissionIdle
    /\ ClauseIdle
    /\ clauses = {} /\ kpc = "idle" /\ karg = None /\ kret = None /\ kprev = {}
    /\ working_clauses = {} /\ adding_clauses = FALSE /\ passes = 0 /\ held = {}

\* agent.kb.ask(query)
AskKB ==
    /\ apc \in {"created", "ready"}
    /\ kpc = "idle"
    /\ \E query \in TileQueries :
         /\ kret' = PyBool(ask(agent.kb, query))
         /\ agent' = [agent EXCEPT !.kb = ask_clauses(@, query)]
         /\ karg' = query
    /\ kpc' = "asked"
    /\ UNCHANGED <<env_pits, player_loc, perception, apc, moves, explored, frontier,
                   visited_tiles, missionVars, clauses, kprev, clauseVars, askVars, held>>

\* agent.is_safe_tile(loc)
IsSafeTile ==
    /\ apc \in {"created", "ready"}
    /\ kpc = "idle"
    /\ \E loc \in env_playable :
         /\ kret' = is_safe_tile(agent, loc)
         /\ agent' = is_safe_tile_self(agent, loc)
         /\ karg' = loc
    /\ kpc' = "judged"
    /\ UNCHANGED <<env_pits, player_loc, perception, apc, moves, explored, frontier,
                   visited_tiles, missionVars, clauses, kprev, clauseVars, askVars, held>>

\* the caller takes the answer and goes on
QueryReturn ==
    /\ kpc \in {"asked", "judged"}
    /\ kpc' = "idle"
    /\ karg' = None
    /\ kret' = None
    /\ UNCHANGED <<agentVars, clauses, kprev, clauseVars, askVars, held>>

QueryNext == NewEnvironment \/ TestMove \/ AskKB \/ IsSafeTile \/ QueryReturn

QuerySpec == QueryInit /\ [][QueryNext]_vars

(***************************************************************************)
(* Mission specification: env.start_mission() on the Environment that was  *)
(* built, one step of _run_one_tick at a time                              *)
(***************************************************************************)
\* start_mission, line 308: the score starts at 0 and the loop is entered
StartMission ==
    /\ apc = "created"
    /\ mpc = "none"
    /\ score' = 0
    /\ mpc' = "loop"
    /\ UNCHANGED <<env_pits, player_loc, agent, perception, apc, moves, explored, frontier,
                   visited_tiles, next_move, penalty, moved_back, scans,
                   clauseVars, kbVars, askVars, held>>

\* _run_one_tick, lines 609-610: the agent thinks about the tile it is on and
\* returns its move
Think ==
    /\ mpc = "loop"
    /\ score > get_min_score
    /\ perception' = get_current_perception(env_pits, player_loc, None)
    /\ agent' = think(agent, get_current_perception(env_pits, player_loc, None))
    /\ visited_tiles' = think_visited(visited_tiles, player_loc)
    /\ next_move' = think_move(agent', visited_tiles', player_loc)
    /\ mpc' = "decided"
    /\ UNCHANGED <<env_pits, player_loc, apc, moves, explored, frontier,
                   score, penalty, moved_back, scans, clauseVars, kbVars, askVars, held>>

\* _run_one_tick, lines 613-617: a move that is not valid costs minus the minimum
\* score and nothing else happens in the tick; a valid move is made
MakeMove ==
    /\ mpc = "decided"
    /\ IF test_move_request(frontier, explored, next_move)
       THEN /\ player_loc' = next_move.location
            /\ explored' = explored \cup {next_move.location}
            /\ frontier' = update_frontier(frontier, explored \cup {next_move.location},
                                           next_move.location)
            /\ penalty' = move_dist(player_loc, next_move)
            /\ moved_back' = (next_move.location # player_loc /\ next_move.location \in explored)
            /\ scans' = IF next_move.sensor_direction = None THEN scans
                        ELSE scans \cup {<<next_move.location, next_move.sensor_direction>>}
            /\ mpc' = "moved"
       ELSE /\ penalty' = 0 - get_min_score
            /\ mpc' = "ticked"
            /\ UNCHANGED <<player_loc, explored, frontier, moved_back, scans>>
    /\ UNCHANGED <<env_pits, agent, perception, apc, moves, visited_tiles, score, next_move,
                   clauseVars, kbVars, askVars, held>>

\* _run_one_tick, lines 620-627: the agent thinks about the perception after the
\* move, sensor reading included, and the penalty of the move is worked out
Sense ==
    /\ mpc = "moved"
    /\ perception' = get_current_perception(env_pits, player_loc, next_move.sensor_direction)
    /\ agent' = think(agent, get_current_perception(env_pits, player_loc,
                                                     next_move.sensor_direction))
    /\ visited_tiles' = think_visited(visited_tiles, player_loc)
    /\ penalty' = tick_penalty(env_pits, penalty, next_move)
    /\ mpc' = "ticked"
    /\ UNCHANGED <<env_pits, player_loc, apc, moves, explored, frontier, score, next_move,
                   moved_back, scans, clauseVars, kbVars, askVars, held>>

\* start_mission, lines 320-328 and the loop test of line 315: the penalty is
\* taken off the score; on the goal the pit guesses are scored and the loop is left
EndTick ==
    /\ mpc = "ticked"
    /\ score' = IF player_loc = get_goal_loc
                THEN score - penalty + guess_score(env_pits, get_pit_tiles(agent))
                ELSE score - penalty
    /\ mpc' = IF player_loc = get_goal_loc \/ ~(score - penalty > get_min_score)
              THEN "done" ELSE "loop"
    /\ UNCHANGED <<env_pits, player_loc, agent, perception, apc, moves, explored, frontier,
                   visited_tiles, next_move, penalty, moved_back, scans,
                   clauseVars, kbVars, askVars, held>>

MissionNext == NewEnvironment \/ StartMission \/ Think \/ MakeMove \/ Sense \/ EndTick

MissionSpec == AgentInit /\ [][MissionNext]_vars

\* the scheduling of the mission: the constructor and start_mission run without
\* waiting for anything, so no step that can be taken is put off for ever.
\* NewEnvironment, Think and Sense can be taken exactly at their positions and
\* leave them, so weak fairness of each says that its position does not last.
MissionFairSpec ==
    /\ MissionSpec
    /\ WF_vars(StartMission) /\ WF_vars(MakeMove) /\ WF_vars(EndTick)
    /\ []<>~(apc = "new")
    /\ []<>~(mpc = "loop" /\ score > get_min_score)
    /\ []<>~(mpc = "moved")

(***************************************************************************)
(* Environment specification: start_mission with an agent about which      *)
(* nothing is assumed: think returns any Move and get_pit_tiles any set    *)
(***************************************************************************)
\* every Move an agent can return
Moves == {Move(location, sensor_direction) :
            location \in AllLocs, sensor_direction \in DIRECTIONS \cup {None}}

\* _run_one_tick, lines 609-610, with any agent
AnyThink ==
    /\ mpc = "loop"
    /\ score > get_min_score
    /\ moves < MaxMoves
    /\ next_move' \in Moves
    /\ moves' = moves + 1
    /\ mpc' = "decided"
    /\ UNCHANGED <<env_pits, player_loc, agent, perception, apc, explored, frontier,
                   visited_tiles, score, penalty, moved_back, scans,
                   clauseVars, kbVars, askVars, held>>

\* _run_one_tick, lines 620-627, with any agent
AnySense ==
    /\ mpc = "moved"
    /\ perception' = get_current_perception(env_pits, player_loc, next_move.sensor_direction)
    /\ penalty' = tick_penalty(env_pits, penalty, next_move)
    /\ mpc' = "ticked"
    /\ UNCHANGED <<env_pits, player_loc, agent, apc, moves, explored, frontier, visited_tiles,
                   score, next_move, moved_back, scans, clauseVars, kbVars, askVars, held>>

\* start_mission, lines 320-328 and the loop test of line 315, with any agent
AnyEndTick ==
    /\ mpc = "ticked"
    /\ \E pit_guesses \in SUBSET PitCells :
         score' = IF player_loc = get_goal_loc
                  THEN score - penalty + guess_score(env_pits, pit_guesses)
                  ELSE score - penalty
    /\ mpc' = IF player_loc = get_goal_loc \/ ~(score - penalty > get_min_score)
              THEN "done" ELSE "loop"
    /\ UNCHANGED <<env_pits, player_loc, agent, perception, apc, moves, explored, frontier,
                   visited_tiles, next_move, penalty, moved_back, scans,
                   clauseVars, kbVars, askVars, held>>

EnvNext == NewEnvironment \/ StartMission \/ AnyThink \/ MakeMove \/ AnySense \/ AnyEndTick

EnvSpec == AgentInit /\ [][EnvNext]_vars

(***************************************************************************)
(* Claims about MazeClause                                                 *)
(***************************************************************************)
\* the literals of a clause, as a set
LitsOf(c) == c.props
\* the propositions two clauses hold with opposite truth values
Complementary(a, b) ==
    {p \in Props : \E v \in BOOLEAN : <<p, v>> \in LitsOf(a) /\ <<p, ~v>> \in LitsOf(b)}
\* the literals of a and b on propositions other than those in ps
OtherLits(a, b, ps) == {l \in LitsOf(a) \cup LitsOf(b) : l[1] \notin ps}

\* C1: for non-valid clauses c1, c2 that are not equal, resolve(c1, c2) is one
\* non-valid clause holding exactly the other literals of c1 and c2 when exactly
\* one proposition is complementary, and the empty set when zero or two or more are.
C1_ResolveSingleComplement ==
    (cpc = "resolved" /\ ~c1.valid /\ ~c2.valid
        /\ ~(LitsOf(c1) = LitsOf(c2) /\ c1.valid = c2.valid))
    => LET comp == Complementary(c1, c2)
       IN  IF Cardinality(comp) = 1
           THEN /\ Cardinality(resolvents) = 1
                /\ \A r \in resolvents :
                      /\ ~r.valid
                      /\ LitsOf(r) = OtherLits(c1, c2, comp)
                      /\ \A l, m \in r.props : l[1] = m[1] => l = m
           ELSE resolvents = {}

\* C1 witness: one complementary proposition, and a resolvent of two literals
C1_Witness ==
    /\ cpc = "resolved"
    /\ Cardinality(Complementary(c1, c2)) = 1
    /\ \E r \in resolvents : Cardinality(r.props) = 2

\* C2: resolve(c, c) is the empty set for every clause c, and resolve(c1, c2) is
\* the empty set whenever c1 or c2 is valid.
C2_ResolveSelfOrValid ==
    (cpc = "resolved" /\ (c1 = c2 \/ c1.valid \/ c2.valid)) => resolvents = {}

\* C2 witness: resolve ran on a non-empty clause and itself, and on a valid clause
C2_Witness ==
    /\ cpc = "resolved"
    /\ \/ c1 = c2 /\ Cardinality(c1.props) = 2
       \/ c1.valid /\ Cardinality(c2.props) = 2

\* some proposition occurs in the literal list with both truth values
Conflicting(in) ==
    \E i, j \in 1..Len(in) : in[i][1] = in[j][1] /\ in[i][2] # in[j][2]
\* the truth value of the first occurrence of proposition p in the literal list
FirstSeen(in, p) ==
    LET i == CHOOSE k \in 1..Len(in) :
                 in[k][1] = p /\ \A m \in 1..(k - 1) : in[m][1] # p
    IN  in[i][2]
\* the constructor's postcondition for clause c built from literal list in
Constructed(in, c) ==
    /\ c.valid <=> Conflicting(in)
    /\ c.valid => c.props = {}
    /\ ~c.valid =>
          /\ \A p \in Props :
                IF \E k \in 1..Len(in) : in[k][1] = p
                THEN get_prop(c, p) = PyBool(FirstSeen(in, p))
                ELSE get_prop(c, p) = None
          /\ \A l, m \in c.props : l[1] = m[1] => l = m
    /\ is_empty(c) <=> (c.props = {} /\ ~c.valid)
    /\ ~(is_valid(c) /\ is_empty(c))

\* C8: a constructed clause is valid iff its literal list holds a proposition with
\* both truth values; a valid clause has an empty literal map; a non-valid one maps
\* each proposition to its first-seen value; is_empty() iff no literal and not valid.
C8_ConstructorInvariant ==
    cpc # "new" => Constructed(in1, c1) /\ Constructed(in2, c2)

\* C8 witness: a valid clause and a clause that collapsed a repeated literal
C8_Witness ==
    /\ cpc = "built"
    /\ c1.valid /\ Len(in1) = 2
    /\ ~c2.valid /\ Len(in2) = 2 /\ Cardinality(c2.props) = 1

(***************************************************************************)
(* Claims about MazeKnowledgeBase                                          *)
(***************************************************************************)
\* the truth assignments to the propositions of the knowledge base
Assignments == [KBProps -> BOOLEAN]
\* assignment a makes clause c true: c is valid, or a agrees with one of its literals
Satisfies(a, c) == c.valid \/ \E l \in c.props : a[l[1]] = l[2]
\* the assignments that make every clause of S true
Models(S) == {a \in Assignments : \A c \in S : Satisfies(a, c)}
Satisfiable(S) == Models(S) # {}
\* S entails the query, read as the disjunction of its literals
Entails(S, query) == \A a \in Models(S) : Satisfies(a, query)

\* the propositions X = P(1,1) and Y = P(2,1)
PX == <<"P", <<1, 1>>>>
PY == <<"P", <<2, 1>>>>

\* C3: on a satisfiable knowledge base, ask of a single-literal query returns True
\* iff every assignment satisfying all stored clauses satisfies the query (so a
\* told unit literal is answered True and its opposite False, and [~X v Y], [X]
\* give ask(Y) = True).
C3_AskSingleLiteral ==
    (kpc = "asked" /\ Satisfiable(clauses) /\ Cardinality(karg.props) = 1)
    => (kret = PyBool(Entails(clauses, karg)))

\* C3 witness: told [~X v Y] and [X], ask(Y) returned True
C3_Witness ==
    /\ kpc = "asked"
    /\ clauses = {MazeClause(<< <<PX, FALSE>>, <<PY, TRUE>> >>), MazeClause(<< <<PX, TRUE>> >>)}
    /\ karg = MazeClause(<< <<PY, TRUE>> >>)
    /\ kret = "True"

\* C4: for every knowledge base and every query clause, ask returns True if the
\* stored clauses entail the query and False otherwise; stated here for the
\* satisfiable knowledge bases and the query clauses that are not valid.
C4_AskAnyQuery ==
    (kpc = "asked" /\ Satisfiable(clauses) /\ ~karg.valid)
    => (kret = PyBool(Entails(clauses, karg)))

\* C5: a query answered True is answered True again after any further tells that
\* leave the knowledge base satisfiable.
C5_AskMonotonic ==
    (kpc = "reasked" /\ Satisfiable(clauses)) => (kret = "True")

\* C5 witness: the query is asked again on a satisfiable knowledge base that has
\* grown since it was answered True
C5_Witness ==
    /\ kpc = "reasked"
    /\ Satisfiable(clauses)
    /\ \E h \in held : Cardinality(clauses) > h.size /\ h.size > 0
    /\ kret = "True"

\* the clauses that are not valid over the propositions of the knowledge base: each
\* proposition is absent, true or false; a turn of the loop that does not end it
\* appends at least one of them to the working clauses
RECURSIVE Pow3(_)
Pow3(n) == IF n = 0 THEN 1 ELSE 3 * Pow3(n - 1)
PassBound == Pow3(MaxKBLoc) + 1

\* C6: once called, ask returns: its while loop takes no more turns than there are
\* clauses to append (every turn counts, and while ask runs either the next turn
\* or the exit of the loop is the step to take), it returns True when the pass
\* over the working clauses produced the empty clause, and False after a pass
\* that added no new clause.
C6_AskTerminates ==
    /\ kpc = "asking" => passes <= PassBound
    /\ kpc = "asked" =>
         IF kret = "True"
         THEN \E r \in ask_pass(working_clauses) : is_contradiction(r)
         ELSE /\ ~adding_clauses
              /\ ask_pass(working_clauses) \subseteq working_clauses

\* C6 witness: ask returned False after passes that added resolvents
C6_Witness ==
    /\ kpc = "asked"
    /\ kret = "False"
    /\ Cardinality(working_clauses) > Cardinality(clauses) + 1

\* the literal lists that hold the literals of props in another order
Reorderings(props) ==
    {[i \in 1..Len(props) |-> props[p[i]]] :
        p \in {q \in [1..Len(props) -> 1..Len(props)] :
                  \A i, j \in 1..Len(props) : q[i] = q[j] => i = j}}

\* C7: telling a clause whose literal mapping and validity flag equal those of a
\* stored clause, in whatever order its literals are listed, leaves the clause
\* set and its size unchanged.
C7_TellIdempotent ==
    (/\ kpc = "told"
     /\ \E props \in Reorderings(karg) : MazeClause(props) \in kprev)
    => (clauses = kprev /\ Cardinality(clauses) = Cardinality(kprev))

\* C7 witness: a two-literal clause is told that the knowledge base already holds
C7_Witness ==
    /\ kpc = "told"
    /\ Len(karg) = 2
    /\ karg[1][1] # karg[2][1]
    /\ MazeClause(<<karg[2], karg[1]>>) \in kprev
    /\ Cardinality(kprev) = 2

\* literal l agrees with the facts: P(loc)=True for a known pit, P(loc)=False for a known safe tile
Agrees(l, known_pits, known_safe) ==
    \/ l[1][2] \in known_pits /\ l[2] = TRUE
    \/ l[1][2] \in known_safe /\ l[2] = FALSE
\* literal l is the complement of a fact
Contradicts(l, known_pits, known_safe) ==
    \/ l[1][2] \in known_pits /\ l[2] = FALSE
    \/ l[1][2] \in known_safe /\ l[2] = TRUE

\* C9: after simplify_self(known_pits, known_safe) no stored clause of two or more
\* literals holds a literal that agrees with a fact.
C9_SimplifyDeletesSatisfied ==
    kpc = "simplified"
    => \A c \in clauses :
         MazeClause_len(c) >= 2 => \A l \in c.props : ~Agrees(l, karg[1], karg[2])

\* C10: after simplify_self(known_pits, known_safe) every clause of two or more
\* literals that held the complement of a fact (and no literal agreeing with a
\* fact, which C9 deletes) is gone from the knowledge base and its resolvent
\* with the unit fact clause is stored.
C10_SimplifyReplaces ==
    kpc = "simplified"
    => \A c \in kprev :
         (/\ MazeClause_len(c) >= 2
          /\ \A l \in c.props : ~Agrees(l, karg[1], karg[2])
          /\ \E l \in c.props : Contradicts(l, karg[1], karg[2]))
         => /\ c \notin clauses
            /\ \A l \in c.props :
                 Contradicts(l, karg[1], karg[2])
                 => [props |-> c.props \ {l}, valid |-> FALSE] \in clauses

\* C11: a second simplify_self with the same known_pits and known_safe leaves the
\* clause set exactly as the first call left it.
C11_SimplifyIdempotent ==
    kpc = "resimplified" => clauses = kprev

\* the assignments under which every known pit is a pit and every known safe tile is not
UnderFacts(known_pits, known_safe) ==
    {a \in Assignments :
        /\ \A loc \in known_pits : <<"P", loc>> \in KBProps => a[<<"P", loc>>]
        /\ \A loc \in known_safe : <<"P", loc>> \in KBProps => ~a[<<"P", loc>>]}

\* C12: under the facts, simplify_self keeps the meaning of the clause set: an
\* assignment that agrees with known_pits and known_safe satisfies every clause
\* stored after the call iff it satisfies every clause stored before it.
C12_SimplifyPreservesMeaning ==
    kpc = "simplified"
    => \A a \in UnderFacts(karg[1], karg[2]) :
         (\A c \in clauses : Satisfies(a, c)) <=> (\A c \in kprev : Satisfies(a, c))

\* C12 witness: a call that stored a resolvent and deleted a satisfied clause
C12_Witness ==
    /\ kpc = "simplified"
    /\ clauses \ kprev # {}
    /\ kprev \ clauses # {}

(***************************************************************************)
(* Claims about the agent                                                  *)
(***************************************************************************)
\* the pit layouts the agent can think of: which playable tiles hold a pit
TileAssignments == [env_playable -> BOOLEAN]
\* layout a makes clause c true
SatisfiesTiles(a, c) == c.valid \/ \E l \in c.props : a[l[1][2]] = l[2]
\* the layouts that make every clause of kb true
TileModels(kb) == {a \in TileAssignments : \A c \in kb : SatisfiesTiles(a, c)}
\* kb entails P(loc) = value
EntailsTile(kb, loc, value) == \A a \in TileModels(kb) : a[loc] = value

\* the last perception held a scan
Scanned == apc = "ready" /\ perception.sensor # <<>>
\* the tiles and the count of that scan
ScannedTiles == get_directional_locs(perception.loc, perception.sensor[2], get_sensor_range)
ScanCount == perception.sensor[1]

\* C13: the clauses _create_pit_constraint_clauses tells for a scan of N tiles with
\* reading K, 0 < K < N, are stored, and a pit layout of the N tiles satisfies them
\* all iff exactly K of the tiles are pits.
C13_ExactlyK ==
    (Scanned /\ 0 < ScanCount /\ ScanCount < Cardinality(ScannedTiles))
    => LET told == create_pit_constraint_clauses({}, ScannedTiles, ScanCount)
       IN  /\ told \subseteq agent.kb
           /\ \A a \in [ScannedTiles -> BOOLEAN] :
                (\A c \in told : \E l \in c.props : a[l[1][2]] = l[2])
                <=> Cardinality({t \in ScannedTiles : a[t]}) = ScanCount

\* C13 witness: a scan of three tiles, two of them pits
C13_Witness ==
    Scanned /\ ScanCount = MaxPits /\ ScanCount < Cardinality(ScannedTiles)

\* C14: after a scan with count 0 every scanned tile is classified safe and the KB
\* answers True to the query P(tile) = False.
C14_ZeroScanSafe ==
    (Scanned /\ ScanCount = 0)
    => \A t \in ScannedTiles :
         /\ is_safe_tile(agent, t) = "True"
         /\ ask(agent.kb, UnitClause(t, FALSE))

\* C14 witness: a zero scan over as many tiles as the sensor reaches, one of which
\* is not next to the start and not the goal
C14_Witness ==
    /\ Scanned /\ ScanCount = 0
    /\ Cardinality(ScannedTiles) = get_sensor_range
    /\ \E t \in ScannedTiles : t # get_goal_loc /\ t \notin get_cardinal_locs(initial_loc, 1)

\* C15: after a scan whose count is the number of scanned tiles every scanned tile
\* is classified a pit and is in pit_tiles.
C15_FullScanPits ==
    (Scanned /\ ScanCount > 0 /\ ScanCount = Cardinality(ScannedTiles))
    => \A t \in ScannedTiles :
         /\ is_safe_tile(agent, t) = "False"
         /\ t \in agent.pit_tiles

\* C15 witness: a scan over more than one tile, all of them pits
C15_Witness ==
    Scanned /\ ScanCount > 1 /\ ScanCount = Cardinality(ScannedTiles)

\* C16: after think has processed a scan with count > 0, every scanned tile the KB
\* entails to be no pit is in safe_tiles and every scanned tile it entails to be a
\* pit is in pit_tiles.
C16_ScanBeliefsComplete ==
    (Scanned /\ ScanCount > 0)
    => \A t \in ScannedTiles :
         /\ EntailsTile(agent.kb, t, FALSE) => t \in agent.safe_tiles
         /\ EntailsTile(agent.kb, t, TRUE) => t \in agent.pit_tiles

\* C17: after a perception has been processed, a neighbour of the goal is
\* classified safe when every other neighbour of the goal is classified a pit.
C17_GoalNeighbourSafe ==
    apc = "ready"
    => \A r \in get_cardinal_locs(get_goal_loc, 1) :
         (/\ get_cardinal_locs(get_goal_loc, 1) # {r}
          /\ \A o \in get_cardinal_locs(get_goal_loc, 1) \ {r} :
                is_safe_tile(agent, o) = "False")
         => is_safe_tile(agent, r) = "True"

\* C18: right after the agent is created, is_safe_tile is True for the start tile,
\* its playable cardinal neighbours and the goal, and None for every other
\* playable tile.
C18_InitialBeliefs ==
    apc = "created"
    => \A t \in env_playable :
         is_safe_tile(agent, t) =
            IF t \in {player_loc, get_goal_loc} \cup get_cardinal_locs(player_loc, 1)
            THEN "True" ELSE None

\* C18 witness: an agent just created on a maze with a pit
C18_Witness ==
    apc = "created" /\ env_pits # {} /\ get_goal_loc \in agent.safe_tiles

\* C19: for every playable tile, is_safe_tile is True exactly when the stored
\* clauses entail the tile is no pit, False exactly when they entail it is a pit
\* (and None otherwise).
C19_ClassifyIsEntailment ==
    apc \in {"created", "ready"}
    => LET models == TileModels(agent.kb)
       IN  \A t \in env_playable :
             LET answer == is_safe_tile(agent, t)
             IN  /\ answer = "True" <=> \A a \in models : a[t] = FALSE
                 /\ answer = "False" <=> \A a \in models : a[t] = TRUE
                 /\ answer \in {"True", "False", None}

\* C19 witness: the agent has stepped on a tile without scanning, and a tile that
\* is in no belief set is reported a pit
C19_Witness ==
    /\ apc = "ready"
    /\ perception.sensor = <<>>
    /\ \E t \in env_playable :
         /\ t \notin agent.pit_tiles
         /\ is_safe_tile(agent, t) = "False"

\* C20: safe_tiles, pit_tiles and possible_pits are pairwise disjoint.
C20_BeliefSetsDisjoint ==
    apc \in {"created", "ready"}
    => /\ agent.safe_tiles \cap agent.pit_tiles = {}
       /\ agent.safe_tiles \cap agent.possible_pits = {}
       /\ agent.pit_tiles \cap agent.possible_pits = {}

(***************************************************************************)
(* Claims about the agent's beliefs over time, the search and the mission  *)
(***************************************************************************)
\* C21: a tile that is in safe_tiles stays in safe_tiles and a tile that is in
\* pit_tiles stays in pit_tiles, whatever perception the agent is given next.
C21_BeliefNeverMovedBack ==
    [][/\ agent.safe_tiles \subseteq agent'.safe_tiles
       /\ agent.pit_tiles \subseteq agent'.pit_tiles]_vars

\* the tiles of a path after its first, which is the tile the agent stands on
PathTiles(path) == {path[i] : i \in 2..Len(path)}

\* C22: neither search returns a path through a tile that is_safe_tile classifies
\* as a hazard at the time of the search, be it a member of pit_tiles or a tile
\* the KB entails to be a pit.
C22_PathAvoidsHazards ==
    apc = "ready" =>
        \A t \in PathTiles(get_quickest_path_to_goal(agent, player_loc))
                 \cup PathTiles(get_quickest_path_to_goal_horizontal_priority(agent, player_loc)) :
            is_safe_tile(agent, t) # PyBool(FALSE)

\* C23: on a turn of a mission the path the move is chosen from is searched with
\* the horizontal-first order exactly when the agent has just moved back onto a
\* tile it had visited earlier, and with the vertical-first order otherwise.
C23_PathOrder ==
    mpc = "decided" => (just_backtracked(visited_tiles, player_loc) <=> moved_back)

\* C24: every Move think returns in a mission targets a tile that is explored or
\* on the frontier and is not a wall, so _test_move_request accepts it.
C24_MovesAreValid ==
    mpc = "decided" => test_move_request(frontier, explored, next_move)

\* the agent has decided to step onto a frontier tile
C24_Witness ==
    /\ mpc = "decided"
    /\ next_move.location \in frontier
    /\ next_move.location # player_loc

\* C25: a mission on a valid maze ends: once the turn loop is entered it is
\* eventually left, with the agent on the goal or the score down to the minimum
\* score; the agent does not stay on a tile for ever when no path is found.
C25_MissionEnds ==
    (mpc = "loop") ~>
        (mpc = "done" /\ (player_loc = get_goal_loc \/ score <= get_min_score))

\* C26: in a mission the agent never asks for a scan it has asked for before: the
\* same direction from the same tile.
C26_NoRepeatedScan ==
    (mpc = "decided" /\ next_move.sensor_direction # None)
        => <<next_move.location, next_move.sensor_direction>> \notin scans

\* the agent decides on a tile from which it has scanned before, a dead-end ahead
C26_Witness ==
    /\ mpc = "decided"
    /\ \E d \in DIRECTIONS : <<player_loc, d>> \in scans
    /\ path_to_goal(agent, visited_tiles, player_loc) = <<>>

\* the tiles a clause mentions
ClauseTiles(c) == {l[1][2] : l \in c.props}

\* C27: once a perception has been processed, no stored clause of two or more
\* literals mentions a tile that is in safe_tiles or pit_tiles: every known tile
\* has been folded into the KB by simplification.
C27_KnownTilesFolded ==
    apc \in {"created", "ready"} =>
        \A c \in agent.kb :
            Cardinality(c.props) >= 2 =>
                ClauseTiles(c) \cap (agent.safe_tiles \cup agent.pit_tiles) = {}

\* the move targets a tile that is neither on the frontier nor explored, or a wall
InvalidTarget(move) ==
    \/ (move.location \notin frontier /\ move.location \notin explored)
    \/ Cell(move.location) = "X"

\* C28: when the agent's move has an invalid target, the tick leaves the player
\* location, the explored set and the frontier as they are and its penalty is
\* minus the minimum score; the penalty is charged and the mission loop ends
\* right after that tick.
C28_InvalidMoveEndsMission ==
    [][/\ (mpc = "decided" /\ InvalidTarget(next_move)) =>
            /\ player_loc' = player_loc /\ explored' = explored /\ frontier' = frontier
            /\ penalty' = 0 - get_min_score
            /\ mpc' = "ticked"
       /\ (mpc = "ticked" /\ InvalidTarget(next_move)) =>
            /\ player_loc' = player_loc /\ explored' = explored /\ frontier' = frontier
            /\ score' = score + get_min_score
            /\ mpc' = "done"]_vars

\* a mission has ended on an invalid move that was not the first move
C28_Witness ==
    /\ mpc = "done"
    /\ InvalidTarget(next_move)
    /\ moves > 1
    /\ player_loc # initial_loc

PlayableNeighbours(loc) ==
    {l \in env_playable :
        \/ (l[1] = loc[1] /\ (l[2] = loc[2] + 1 \/ l[2] + 1 = loc[2]))
        \/ (l[2] = loc[2] /\ (l[1] = loc[1] + 1 \/ l[1] + 1 = loc[1]))}

\* C30: building the Environment fails, and no agent is created, exactly when
\* every playable neighbour of the goal is a pit (or it has none) or some playable
\* neighbour of the start tile is a pit; on every other maze it succeeds.
C30_InvalidMazeRejected ==
    apc # "new" =>
        /\ (apc = "error") <=>
                (\/ PlayableNeighbours(get_goal_loc) \subseteq env_pits
                 \/ PlayableNeighbours(initial_loc) \cap env_pits # {})
        /\ (apc = "error") => (agent = NewAgent /\ visited_tiles = <<>>)
        /\ (apc # "error") => agent # NewAgent

\* construction has failed on a maze whose start tile has safe neighbours only
C30_Witness ==
    /\ apc = "error"
    /\ PlayableNeighbours(initial_loc) \cap env_pits = {}
    /\ env_pits # {}

(***************************************************************************)
(* Claims about the environment's record keeping, serialisation, the       *)
(* search, soundness and frame conditions                                  *)
(***************************************************************************)
\* C31: once the Environment is built and after any moves made, the frontier is
\* exactly the set of playable tiles that are not explored and have an explored
\* tile next to them; frontier and explored set are disjoint, and the player's
\* tile is explored.
C31_FrontierExact ==
    apc = "created" =>
        /\ frontier = {t \in env_playable \ explored : PlayableNeighbours(t) \cap explored # {}}
        /\ frontier \cap explored = {}
        /\ player_loc \in explored

\* two moves have been made, the second onto a frontier tile the first move opened
C31_Witness ==
    /\ apc = "created"
    /\ mpc = "moved"
    /\ Cardinality(explored) = 3
    /\ frontier # {}

\* C32: a clause built again from its serialised form is equal to the clause,
\* valid clauses and the empty clause included.
C32_SerialRoundTrip ==
    cpc = "serialized" =>
        (MazeClause_eq(rebuilt[1], c1) /\ MazeClause_eq(rebuilt[2], c2))

\* the tiles a path may step onto: playable, in neither pit_tiles nor dead_tiles
Allowed(self) == env_playable \ (self.pit_tiles \cup self.dead_tiles)

RECURSIVE Within(_, _, _)
\* the tiles within k steps of start, every step onto an allowed tile
Within(self, start, k) ==
    IF k = 0 THEN {start}
    ELSE LET prev == Within(self, start, k - 1)
         IN  prev \cup {t \in Allowed(self) : PlayableNeighbours(t) \cap prev # {}}

\* path is what the claim asks of the search from start
QuickestPath(self, start, path) ==
    IF start = get_goal_loc THEN path = <<get_goal_loc>>
    ELSE IF get_goal_loc \notin Within(self, start, Cardinality(env_playable)) THEN path = <<>>
    ELSE /\ Len(path) >= 2
         /\ path[1] = start /\ path[Len(path)] = get_goal_loc
         /\ \A i \in 2..Len(path) :
                path[i] \in Allowed(self) /\ path[i] \in PlayableNeighbours(path[i - 1])
         /\ \A i, j \in 1..Len(path) : path[i] = path[j] => i = j
         /\ get_goal_loc \notin Within(self, start, Len(path) - 2)

\* C33: from every start tile each search returns the empty list when the goal
\* cannot be reached over playable tiles outside pit_tiles and dead_tiles, and
\* otherwise a path from the start to the goal in cardinal steps, without a
\* repeated tile and of the least possible length ([goal] from the goal itself).
C33_SearchShortest ==
    apc \in {"created", "ready"} =>
        \A start \in env_playable :
            /\ QuickestPath(agent, start, get_quickest_path_to_goal(agent, start))
            /\ QuickestPath(agent, start,
                            get_quickest_path_to_goal_horizontal_priority(agent, start))

\* a dead tile cuts the start off from the goal while other tiles still reach it
C33_Witness ==
    /\ apc = "ready"
    /\ agent.dead_tiles # {}
    /\ get_quickest_path_to_goal(agent, initial_loc) = <<>>
    /\ \E start \in env_playable : Len(get_quickest_path_to_goal(agent, start)) = 3

\* C34: every tile in dead_tiles is a real pit of the maze and the knowledge
\* base entails that it is a pit.
C34_DeadTilesArePits ==
    apc = "ready" =>
        \A t \in agent.dead_tiles :
            t \in env_pits /\ EntailsTile(agent.kb, t, TRUE)

\* C35: in a mission on a valid maze the agent is never on a pit tile: every
\* move think returns stays on the current tile, goes back to a tile already
\* visited or goes to a tile in safe_tiles, and no tile in safe_tiles is a pit.
C35_NeverOnPit ==
    apc = "created" =>
        /\ player_loc \notin env_pits
        /\ agent.safe_tiles \cap env_pits = {}
        /\ mpc = "decided" =>
               \/ next_move.location = player_loc
               \/ \E i \in 1..Len(visited_tiles) : visited_tiles[i] = next_move.location
               \/ next_move.location \in agent.safe_tiles

\* next to a pit, the agent has chosen to step onto another, safe tile
C35_Witness ==
    /\ mpc = "decided"
    /\ PlayableNeighbours(player_loc) \cap env_pits # {}
    /\ next_move.location # player_loc
    /\ next_move.location \in agent.safe_tiles

\* C36: the beliefs are sound for the real maze: after any truthful perceptions
\* no member of safe_tiles is a real pit and every member of pit_tiles is a real
\* pit, so get_pit_tiles returns real pits only.
C36_BeliefsSound ==
    apc \in {"created", "ready"} =>
        /\ \A t \in agent.safe_tiles : t \notin env_pits
        /\ agent.pit_tiles \subseteq env_pits
        /\ get_pit_tiles(agent) \subseteq env_pits

\* the agent has worked out a pit it never stood on
C36_Witness ==
    /\ apc = "ready"
    /\ agent.pit_tiles # {}
    /\ \A i \in 1..Len(visited_tiles) : visited_tiles[i] \notin env_pits
    /\ player_loc \notin env_pits

\* the real pit layout of the maze
RealLayout == [t \in env_playable |-> t \in env_pits]

\* C37: the agent never makes its knowledge base inconsistent: after any truthful
\* perceptions on a valid maze the real pit layout satisfies every stored clause,
\* and the empty clause is never stored.
C37_KBConsistent ==
    apc \in {"created", "ready"} =>
        \A c \in agent.kb : SatisfiesTiles(RealLayout, c) /\ ~is_empty(c)

\* the knowledge base holds a constraint over several tiles of a maze with pits,
\* and a pit has been found
C37_Witness ==
    /\ apc = "ready"
    /\ env_pits # {}
    /\ agent.pit_tiles # {}
    /\ \E c \in agent.kb : Cardinality(c.props) >= 2

\* C38: the belief sets are derived from the knowledge base: in every agent
\* state the KB entails P(t) = False for every tile t of safe_tiles and
\* P(t) = True for every tile t of pit_tiles.
C38_BeliefsEntailed ==
    apc \in {"created", "ready"} =>
        /\ \A t \in agent.safe_tiles : EntailsTile(agent.kb, t, FALSE)
        /\ \A t \in agent.pit_tiles : EntailsTile(agent.kb, t, TRUE)

\* a scan has made a tile safe that the agent never stood on, and a pit is known
C38_Witness ==
    /\ Scanned
    /\ ScanCount = 0
    /\ ScannedTiles \cap agent.safe_tiles # {}
    /\ agent.pit_tiles # {}

C40_SimplifyOrderFree ==
    kpc = "simplified"
    => simplify_from_known_locs(kprev, karg[1] \cup karg[2], karg[1]) = {clauses}

====
